---- MODULE Spec2Model ----
(***************************************************************************)
(* Model of server.py: a single-connection, half-duplex voice relay.       *)
(* main() accepts one connection at a time, reads chunks until the         *)
(* END_RECORDING_SIGNAL marker, a zero-length read or a socket error,      *)
(* then process_conversation() wraps the audio in a WAV container, calls   *)
(* the transcription collaborator, and                                     *)
(* generate_and_stream_elevenlabs_audio() relays the synthesis stream to   *)
(* the same socket.  Bytes are integers 0..255, byte strings and text are  *)
(* sequences of them.                                                      *)
(***************************************************************************)
EXTENDS Integers, Sequences, FiniteSets, TLC

(***************************************************************************)
(* Bounds of the model.                                                    *)
(***************************************************************************)
\* connections the clients open during one run of the server
MaxConns == 2
\* pieces (two audio bytes or a whole marker) a client sends on one connection
MaxSegs == 2
\* chunks the synthesis stream yields at most
MaxSynthChunks == 2
\* length, in two-byte samples, of the longest payload given to create_wav_header alone
MaxPairs == 100

(***************************************************************************)
(* Program constants (server.py lines 28-32).                              *)
(***************************************************************************)
SAMPLE_RATE == 16000
CHANNELS == 1
SAMPLE_WIDTH == 2
CHUNK_SIZE == 1024
\* b"END_RECORDING_SIGNAL"
END_RECORDING_SIGNAL ==
    <<69, 78, 68, 95, 82, 69, 67, 79, 82, 68, 73, 78, 71, 95, 83, 73, 71, 78, 65, 76>>

VARIABLES
    pc,                   \* where main() is: accept, recv, process, synth, relay, send, close
    cur,                  \* number of the connection accepted last (0: none yet)
    connState,            \* per connection: "pending", "open" or "closed"
    stream,               \* all the bytes the current client sends before it closes
    pos,                  \* how many bytes of stream the server has read
    audio_buffer,         \* audio_buffer.getvalue()
    recv_result,          \* how the receive loop ended: none, marker, eof, error
    wav_data,             \* the container handed to the transcription collaborator
    gemini_calls,         \* calls of generate_content in this session
    gemini_result,        \* none, ok, error
    gemini_response_text, \* response.text
    eleven_calls,         \* calls of text_to_speech.convert in this session
    synth_result,         \* none, streaming, finished, error
    yielded,              \* the chunks audio_stream has yielded so far, in order
    chunk,                \* the chunk pulled and not yet written (<<>>: none)
    sent,                 \* the bytes written to the client socket in this session
    total_bytes_sent,     \* the local of generate_and_stream_elevenlabs_audio
    send_failed           \* conn.sendall raised in this session

vars == <<pc, cur, connState, stream, pos, audio_buffer, recv_result, wav_data,
          gemini_calls, gemini_result, gemini_response_text, eleven_calls,
          synth_result, yielded, chunk, sent, total_bytes_sent, send_failed>>

recvVars == <<stream, pos, audio_buffer, recv_result>>
geminiVars == <<wav_data, gemini_calls, gemini_result, gemini_response_text>>
synthVars == <<eleven_calls, synth_result, yielded, chunk, sent, total_bytes_sent,
               send_failed>>
connVars == <<cur, connState>>

(***************************************************************************)
(* Byte-string helpers: Python's `in`, split(sep)[0], and concatenation.   *)
(***************************************************************************)
Conns == 1..MaxConns

\* the places where sig occurs in data
Occurrences(data, sig) ==
    {i \in 1..(Len(data) - Len(sig) + 1) : SubSeq(data, i, i + Len(sig) - 1) = sig}

\* sig in data
Contains(data, sig) == Occurrences(data, sig) # {}

\* index of the first occurrence of sig in data (Contains(data, sig) holds)
FirstIndex(data, sig) ==
    CHOOSE i \in Occurrences(data, sig) : \A j \in Occurrences(data, sig) : i <= j

\* mutant: the chunk is written whole, marker included
SplitFirst_Whole(data, sig) == data

\* mutant: data.split(sig)[-1], what follows the last occurrence
SplitFirst_AfterLast(data, sig) ==
    IF Contains(data, sig)
    THEN LET last == CHOOSE i \in Occurrences(data, sig) :
                         \A j \in Occurrences(data, sig) : j <= i
         IN  SubSeq(data, last + Len(sig), Len(data))
    ELSE data

\* data.split(sig)[0]: everything before the first occurrence, all of data if none
SplitFirst(data, sig) ==
    IF Contains(data, sig) THEN SubSeq(data, 1, FirstIndex(data, sig) - 1) ELSE data

RECURSIVE Flatten(_)
\* b"".join(chunks): what a list of chunks amounts to on the wire (used by the properties)
Flatten(chunks) ==
    IF chunks = <<>> THEN <<>> ELSE Head(chunks) \o Flatten(Tail(chunks))

Min(a, b) == IF a <= b THEN a ELSE b

(***************************************************************************)
(* create_wav_header (lines 48-63).                                        *)
(***************************************************************************)
\* n.to_bytes(width, 'little')
ToBytesLE(n, width) == [i \in 1..width |-> (n \div (256 ^ (i - 1))) % 256]

\* mutant: line 63 returns header.getvalue() alone
create_wav_header_HeaderOnly(audio_data, sample_rate, num_channels, sample_width) ==
    LET datasize == Len(audio_data)
    IN  <<82, 73, 70, 70>>
        \o ToBytesLE(datasize + 36, 4)
        \o <<87, 65, 86, 69, 102, 109, 116, 32>>
        \o ToBytesLE(16, 4)
        \o ToBytesLE(1, 2)
        \o ToBytesLE(num_channels, 2)
        \o ToBytesLE(sample_rate, 4)
        \o ToBytesLE(sample_rate * num_channels * sample_width, 4)
        \o ToBytesLE(num_channels * sample_width, 2)
        \o ToBytesLE(sample_width * 8, 2)
        \o <<100, 97, 116, 97>>
        \o ToBytesLE(datasize, 4)

\* mutant: line 52 writes the whole file size, datasize + 44
create_wav_header_Size44(audio_data, sample_rate, num_channels, sample_width) ==
    LET datasize == Len(audio_data)
    IN  <<82, 73, 70, 70>>
        \o ToBytesLE(datasize + 44, 4)
        \o <<87, 65, 86, 69, 102, 109, 116, 32>>
        \o ToBytesLE(16, 4)
        \o ToBytesLE(1, 2)
        \o ToBytesLE(num_channels, 2)
        \o ToBytesLE(sample_rate, 4)
        \o ToBytesLE(sample_rate * num_channels * sample_width, 4)
        \o ToBytesLE(num_channels * sample_width, 2)
        \o ToBytesLE(sample_width * 8, 2)
        \o <<100, 97, 116, 97>>
        \o ToBytesLE(datasize, 4)
        \o audio_data

create_wav_header(audio_data, sample_rate, num_channels, sample_width) ==
    LET datasize == Len(audio_data)
    IN  <<82, 73, 70, 70>>                                     \* b'RIFF'
        \o ToBytesLE(datasize + 36, 4)
        \o <<87, 65, 86, 69, 102, 109, 116, 32>>               \* b'WAVEfmt '
        \o ToBytesLE(16, 4)
        \o ToBytesLE(1, 2)
        \o ToBytesLE(num_channels, 2)
        \o ToBytesLE(sample_rate, 4)
        \o ToBytesLE(sample_rate * num_channels * sample_width, 4)
        \o ToBytesLE(num_channels * sample_width, 2)
        \o ToBytesLE(sample_width * 8, 2)
        \o <<100, 97, 116, 97>>                                \* b'data'
        \o ToBytesLE(datasize, 4)
        \o audio_data

(***************************************************************************)
(* str.strip() on the response text (line 68).                             *)
(***************************************************************************)
\* the ASCII characters str.isspace() accepts
IsSpace(c) == c \in {9, 10, 11, 12, 13, 28, 29, 30, 31, 32}

RECURSIVE LStrip(_)
LStrip(text) ==
    IF text # <<>> /\ IsSpace(Head(text)) THEN LStrip(Tail(text)) ELSE text

RECURSIVE RStrip(_)
RStrip(text) ==
    IF text # <<>> /\ IsSpace(text[Len(text)])
    THEN RStrip(SubSeq(text, 1, Len(text) - 1))
    ELSE text

Strip(text) == RStrip(LStrip(text))

(***************************************************************************)
(* Inputs: what a client sends, what the collaborators return.             *)
(***************************************************************************)
\* a client sends audio (b"\x01\x02") and markers; recv cuts the stream anywhere
Segments == {<<1, 2>>, END_RECORDING_SIGNAL}

RECURSIVE SegSeqs(_)
SegSeqs(n) ==
    IF n = 0 THEN {<<>>}
    ELSE SegSeqs(n - 1) \cup {s \o g : s \in SegSeqs(n - 1), g \in Segments}

ClientStreams == SegSeqs(MaxSegs)

RECURSIVE Repeat(_, _)
\* s * n
Repeat(s, n) == IF n = 0 THEN <<>> ELSE s \o Repeat(s, n - 1)

\* the recording of the end-to-end scenario: b"\x01\x02" * 100, then the marker
ScenarioStream == Repeat(<<1, 2>>, 100) \o END_RECORDING_SIGNAL

\* payloads for create_wav_header on its own: b"\x01\x02" * k, and some other bytes
Payloads == {Repeat(<<1, 2>>, k) : k \in 0..MaxPairs} \cup {<<255>>, <<0, 255, 7>>}

\* response.text: "", " \n", " hi "
Texts == {<<>>, <<32, 10>>, <<32, 104, 105, 32>>}

\* chunks the synthesis stream yields: b"", b"AA", b"BB"
SynthChunks == {<<>>, <<65, 65>>, <<66, 66>>}

(***************************************************************************)
(* Initial state: the listening socket is bound, nothing accepted yet.     *)
(***************************************************************************)
Init ==
    /\ pc = "accept"
    /\ cur = 0
    /\ connState = [c \in Conns |-> "pending"]
    /\ stream = <<>>
    /\ pos = 0
    /\ audio_buffer = <<>>
    /\ recv_result = "none"
    /\ wav_data = <<>>
    /\ gemini_calls = 0
    /\ gemini_result = "none"
    /\ gemini_response_text = <<>>
    /\ eleven_calls = 0
    /\ synth_result = "none"
    /\ yielded = <<>>
    /\ chunk = <<>>
    /\ sent = <<>>
    /\ total_bytes_sent = 0
    /\ send_failed = FALSE

(***************************************************************************)
(* main(), lines 142-148: accept the next connection, fresh audio_buffer.  *)
(***************************************************************************)
\* mutant: the session is handed to a thread and accept runs again at once
Accept_Concurrent ==
    /\ pc \in {"accept", "recv"}
    /\ cur < MaxConns
    /\ cur' = cur + 1
    /\ connState' = [connState EXCEPT ![cur + 1] = "open"]
    /\ \E s \in ClientStreams : stream' = s
    /\ pos' = 0
    /\ audio_buffer' = <<>>
    /\ recv_result' = "none"
    /\ wav_data' = <<>>
    /\ gemini_calls' = 0
    /\ gemini_result' = "none"
    /\ gemini_response_text' = <<>>
    /\ eleven_calls' = 0
    /\ synth_result' = "none"
    /\ yielded' = <<>>
    /\ chunk' = <<>>
    /\ sent' = <<>>
    /\ total_bytes_sent' = 0
    /\ send_failed' = FALSE
    /\ pc' = "recv"

\* mutant: audio_buffer is created once, before the accept loop
Accept_KeepBuffer ==
    /\ pc = "accept"
    /\ cur < MaxConns
    /\ cur' = cur + 1
    /\ connState' = [connState EXCEPT ![cur + 1] = "open"]
    /\ \E s \in ClientStreams : stream' = s
    /\ pos' = 0
    /\ audio_buffer' = audio_buffer
    /\ recv_result' = "none"
    /\ wav_data' = <<>>
    /\ gemini_calls' = 0
    /\ gemini_result' = "none"
    /\ gemini_response_text' = <<>>
    /\ eleven_calls' = 0
    /\ synth_result' = "none"
    /\ yielded' = <<>>
    /\ chunk' = <<>>
    /\ sent' = <<>>
    /\ total_bytes_sent' = 0
    /\ send_failed' = FALSE
    /\ pc' = "recv"

\* line 144 on, for a client whose stream is one of streams
AcceptFrom(streams) ==
    /\ pc = "accept"
    /\ cur < MaxConns
    /\ cur' = cur + 1
    /\ connState' = [connState EXCEPT ![cur + 1] = "open"]
    /\ \E s \in streams : stream' = s
    /\ pos' = 0
    /\ audio_buffer' = <<>>
    /\ recv_result' = "none"
    /\ wav_data' = <<>>
    /\ gemini_calls' = 0
    /\ gemini_result' = "none"
    /\ gemini_response_text' = <<>>
    /\ eleven_calls' = 0
    /\ synth_result' = "none"
    /\ yielded' = <<>>
    /\ chunk' = <<>>
    /\ sent' = <<>>
    /\ total_bytes_sent' = 0
    /\ send_failed' = FALSE
    /\ pc' = "recv"

Accept == AcceptFrom(ClientStreams)

(***************************************************************************)
(* main(), lines 151-169: one pass of the receive loop.                    *)
(***************************************************************************)
\* mutant: the marker is looked for in the buffer plus the chunk (a carry-over)
RecvData_CarryOver ==
    /\ pc = "recv"
    /\ \E n \in 1..Min(CHUNK_SIZE, Len(stream) - pos) :
         LET data == SubSeq(stream, pos + 1, pos + n)
         IN  /\ pos' = pos + n
             /\ IF Contains(audio_buffer \o data, END_RECORDING_SIGNAL)
                THEN /\ audio_buffer' = SplitFirst(audio_buffer \o data, END_RECORDING_SIGNAL)
                     /\ recv_result' = "marker"
                     /\ pc' = "process"
                ELSE /\ audio_buffer' = audio_buffer \o data
                     /\ recv_result' = "none"
                     /\ pc' = "recv"
    /\ UNCHANGED <<stream, connVars, geminiVars, synthVars>>

\* mutant: every chunk received is acknowledged with one byte on the socket
RecvData_Ack ==
    /\ pc = "recv"
    /\ \E n \in 1..Min(CHUNK_SIZE, Len(stream) - pos) :
         LET data == SubSeq(stream, pos + 1, pos + n)
         IN  /\ pos' = pos + n
             /\ IF Contains(data, END_RECORDING_SIGNAL)
                THEN /\ audio_buffer' = audio_buffer \o SplitFirst(data, END_RECORDING_SIGNAL)
                     /\ recv_result' = "marker"
                     /\ pc' = "process"
                ELSE /\ audio_buffer' = audio_buffer \o data
                     /\ recv_result' = "none"
                     /\ pc' = "recv"
    /\ sent' = sent \o <<6>>
    /\ UNCHANGED <<stream, connVars, geminiVars, eleven_calls, synth_result, yielded,
                   chunk, total_bytes_sent, send_failed>>

\* conn.recv(CHUNK_SIZE) returns 1..CHUNK_SIZE of the bytes the client has sent
RecvData ==
    /\ pc = "recv"
    /\ \E n \in 1..Min(CHUNK_SIZE, Len(stream) - pos) :
         LET data == SubSeq(stream, pos + 1, pos + n)
         IN  /\ pos' = pos + n
             /\ IF Contains(data, END_RECORDING_SIGNAL)
                THEN /\ audio_buffer' = audio_buffer \o SplitFirst(data, END_RECORDING_SIGNAL)
                     /\ recv_result' = "marker"
                     /\ pc' = "process"
                ELSE /\ audio_buffer' = audio_buffer \o data
                     /\ recv_result' = "none"
                     /\ pc' = "recv"
    /\ UNCHANGED <<stream, connVars, geminiVars, synthVars>>

\* mutant: a zero-length read is treated as a failed recording, nothing is processed
RecvEof_Abort ==
    /\ pc = "recv"
    /\ pos = Len(stream)
    /\ recv_result' = "eof"
    /\ pc' = "close"
    /\ UNCHANGED <<stream, pos, audio_buffer, connVars, geminiVars, synthVars>>

\* conn.recv returns b"": the peer has closed after all its bytes were read
RecvEof ==
    /\ pc = "recv"
    /\ pos = Len(stream)
    /\ recv_result' = "eof"
    /\ pc' = "process"
    /\ UNCHANGED <<stream, pos, audio_buffer, connVars, geminiVars, synthVars>>

\* conn.recv raises socket.error: caught at line 167, the loop breaks
RecvError ==
    /\ pc = "recv"
    /\ recv_result' = "error"
    /\ pc' = "process"
    /\ UNCHANGED <<stream, pos, audio_buffer, connVars, geminiVars, synthVars>>

(***************************************************************************)
(* process_conversation, lines 97-125.                                     *)
(***************************************************************************)
\* lines 98-100: no audio, return
ProcessEmpty ==
    /\ pc = "process"
    /\ audio_buffer = <<>>
    /\ pc' = "close"
    /\ UNCHANGED <<connVars, recvVars, geminiVars, synthVars>>

\* mutant: process_conversation without the check of lines 98-100
TranscribeOk_NoEmptyCheck ==
    /\ pc = "process"
    /\ wav_data' = create_wav_header(audio_buffer, SAMPLE_RATE, CHANNELS, SAMPLE_WIDTH)
    /\ gemini_calls' = gemini_calls + 1
    /\ gemini_result' = "ok"
    /\ \E t \in Texts : gemini_response_text' = t
    /\ pc' = "synth"
    /\ UNCHANGED <<connVars, recvVars, synthVars>>

\* lines 105-115: build the container, generate_content returns response.text
TranscribeOk ==
    /\ pc = "process"
    /\ audio_buffer # <<>>
    /\ wav_data' = create_wav_header(audio_buffer, SAMPLE_RATE, CHANNELS, SAMPLE_WIDTH)
    /\ gemini_calls' = gemini_calls + 1
    /\ gemini_result' = "ok"
    /\ \E t \in Texts : gemini_response_text' = t
    /\ pc' = "synth"
    /\ UNCHANGED <<connVars, recvVars, synthVars>>

\* mutant: the handler of line 124 speaks a canned apology instead of returning
TranscribeFail_Apology ==
    /\ pc = "process"
    /\ audio_buffer # <<>>
    /\ wav_data' = create_wav_header(audio_buffer, SAMPLE_RATE, CHANNELS, SAMPLE_WIDTH)
    /\ gemini_calls' = gemini_calls + 1
    /\ gemini_result' = "error"
    /\ gemini_response_text' = <<104, 105>>
    /\ pc' = "synth"
    /\ UNCHANGED <<connVars, recvVars, synthVars>>

\* mutant: no handler at line 124, the exception ends main's loop
TranscribeFail_Uncaught ==
    /\ pc = "process"
    /\ audio_buffer # <<>>
    /\ wav_data' = create_wav_header(audio_buffer, SAMPLE_RATE, CHANNELS, SAMPLE_WIDTH)
    /\ gemini_calls' = gemini_calls + 1
    /\ gemini_result' = "error"
    /\ connState' = [connState EXCEPT ![cur] = "closed"]
    /\ pc' = "crashed"
    /\ UNCHANGED <<gemini_response_text, cur, recvVars, synthVars>>

\* mutant: the handler of line 124 tries generate_content a second time
TranscribeFail_Retry ==
    /\ pc = "process"
    /\ audio_buffer # <<>>
    /\ wav_data' = create_wav_header(audio_buffer, SAMPLE_RATE, CHANNELS, SAMPLE_WIDTH)
    /\ gemini_calls' = gemini_calls + 1
    /\ gemini_result' = "error"
    /\ pc' = IF gemini_calls = 0 THEN "process" ELSE "close"
    /\ UNCHANGED <<gemini_response_text, connVars, recvVars, synthVars>>

\* lines 105-115 raise: caught at line 124, process_conversation returns
TranscribeFail ==
    /\ pc = "process"
    /\ audio_buffer # <<>>
    /\ wav_data' = create_wav_header(audio_buffer, SAMPLE_RATE, CHANNELS, SAMPLE_WIDTH)
    /\ gemini_calls' = gemini_calls + 1
    /\ gemini_result' = "error"
    /\ pc' = "close"
    /\ UNCHANGED <<gemini_response_text, connVars, recvVars, synthVars>>

(***************************************************************************)
(* generate_and_stream_elevenlabs_audio, lines 67-93.                      *)
(***************************************************************************)
\* lines 68-70: nothing to synthesize
SynthNoText ==
    /\ pc = "synth"
    /\ Strip(gemini_response_text) = <<>>
    /\ pc' = "close"
    /\ UNCHANGED <<connVars, recvVars, geminiVars, synthVars>>

\* mutant: line 68 tests `if not text`, without strip()
ConvertOk_NoStrip ==
    /\ pc = "synth"
    /\ gemini_response_text # <<>>
    /\ eleven_calls' = eleven_calls + 1
    /\ synth_result' = "streaming"
    /\ total_bytes_sent' = 0
    /\ pc' = "relay"
    /\ UNCHANGED <<yielded, chunk, sent, send_failed, connVars, recvVars, geminiVars>>

\* lines 75-83: text_to_speech.convert returns the stream
ConvertOk ==
    /\ pc = "synth"
    /\ Strip(gemini_response_text) # <<>>
    /\ eleven_calls' = eleven_calls + 1
    /\ synth_result' = "streaming"
    /\ total_bytes_sent' = 0
    /\ pc' = "relay"
    /\ UNCHANGED <<yielded, chunk, sent, send_failed, connVars, recvVars, geminiVars>>

\* lines 75-80 raise: caught at line 92
ConvertFail ==
    /\ pc = "synth"
    /\ Strip(gemini_response_text) # <<>>
    /\ eleven_calls' = eleven_calls + 1
    /\ synth_result' = "error"
    /\ pc' = "close"
    /\ UNCHANGED <<yielded, chunk, sent, total_bytes_sent, send_failed, connVars,
                   recvVars, geminiVars>>

\* line 84-85: the stream yields the next chunk; an empty one is skipped
PullChunk ==
    /\ pc = "relay"
    /\ Len(yielded) < MaxSynthChunks
    /\ \E c \in SynthChunks :
         /\ yielded' = Append(yielded, c)
         /\ IF c # <<>>
            THEN chunk' = c /\ pc' = "send"
            ELSE chunk' = <<>> /\ pc' = "relay"
    /\ UNCHANGED <<eleven_calls, synth_result, sent, total_bytes_sent, send_failed,
                   connVars, recvVars, geminiVars>>

\* line 84: the stream is exhausted; line 90
PullEnd ==
    /\ pc = "relay"
    /\ synth_result' = "finished"
    /\ pc' = "close"
    /\ UNCHANGED <<eleven_calls, yielded, chunk, sent, total_bytes_sent, send_failed,
                   connVars, recvVars, geminiVars>>

\* mutant: the handler of line 92 calls convert once more before giving up
PullFail_Retry ==
    /\ pc = "relay"
    /\ eleven_calls' = eleven_calls + 1
    /\ synth_result' = "error"
    /\ pc' = "close"
    /\ UNCHANGED <<yielded, chunk, sent, total_bytes_sent, send_failed,
                   connVars, recvVars, geminiVars>>

\* line 84: the stream raises while producing the next chunk; caught at line 92
PullFail ==
    /\ pc = "relay"
    /\ synth_result' = "error"
    /\ pc' = "close"
    /\ UNCHANGED <<eleven_calls, yielded, chunk, sent, total_bytes_sent, send_failed,
                   connVars, recvVars, geminiVars>>

\* mutant: the chunk is put in front of what was already written
SendOk_Prepend ==
    /\ pc = "send"
    /\ sent' = chunk \o sent
    /\ total_bytes_sent' = total_bytes_sent + Len(chunk)
    /\ chunk' = <<>>
    /\ pc' = "relay"
    /\ UNCHANGED <<eleven_calls, synth_result, yielded, send_failed, connVars,
                   recvVars, geminiVars>>

\* mutant: line 87 counts chunks, total_bytes_sent += 1
SendOk_CountChunks ==
    /\ pc = "send"
    /\ sent' = sent \o chunk
    /\ total_bytes_sent' = total_bytes_sent + 1
    /\ chunk' = <<>>
    /\ pc' = "relay"
    /\ UNCHANGED <<eleven_calls, synth_result, yielded, send_failed, connVars,
                   recvVars, geminiVars>>

\* lines 86-87: conn.sendall(chunk) writes the whole chunk
SendOk ==
    /\ pc = "send"
    /\ sent' = sent \o chunk
    /\ total_bytes_sent' = total_bytes_sent + Len(chunk)
    /\ chunk' = <<>>
    /\ pc' = "relay"
    /\ UNCHANGED <<eleven_calls, synth_result, yielded, send_failed, connVars,
                   recvVars, geminiVars>>

\* mutant: the handler is inside the for loop, the next chunk is tried
SendFail_Continue ==
    /\ pc = "send"
    /\ \E n \in 0..(Len(chunk) - 1) : sent' = sent \o SubSeq(chunk, 1, n)
    /\ send_failed' = TRUE
    /\ chunk' = <<>>
    /\ pc' = "relay"
    /\ UNCHANGED <<eleven_calls, synth_result, yielded, total_bytes_sent, connVars,
                   recvVars, geminiVars>>

\* line 86: conn.sendall raises after writing some part of the chunk; caught at line 92
SendFail ==
    /\ pc = "send"
    /\ \E n \in 0..(Len(chunk) - 1) : sent' = sent \o SubSeq(chunk, 1, n)
    /\ send_failed' = TRUE
    /\ chunk' = <<>>
    /\ pc' = "close"
    /\ UNCHANGED <<eleven_calls, synth_result, yielded, total_bytes_sent, connVars,
                   recvVars, geminiVars>>

(***************************************************************************)
(* main(), lines 146 and 174-176: the with block ends, conn is closed,     *)
(* the loop goes back to accept.                                           *)
(***************************************************************************)
\* mutant: no with block, conn.close() only on the path without a socket error
CloseConn_NoWith ==
    /\ pc = "close"
    /\ connState' = IF recv_result = "error" \/ send_failed
                    THEN connState
                    ELSE [connState EXCEPT ![cur] = "closed"]
    /\ pc' = "accept"
    /\ UNCHANGED <<cur, recvVars, geminiVars, synthVars>>

CloseConn ==
    /\ pc = "close"
    /\ connState' = [connState EXCEPT ![cur] = "closed"]
    /\ pc' = "accept"
    /\ UNCHANGED <<cur, recvVars, geminiVars, synthVars>>

SessionStep ==
    \/ RecvData
    \/ RecvEof
    \/ RecvError
    \/ ProcessEmpty
    \/ TranscribeOk
    \/ TranscribeFail
    \/ SynthNoText
    \/ ConvertOk
    \/ ConvertFail
    \/ PullChunk
    \/ PullEnd
    \/ PullFail
    \/ SendOk
    \/ SendFail
    \/ CloseConn

Next == Accept \/ SessionStep

Spec == Init /\ [][Next]_vars

(***************************************************************************)
(* The end-to-end scenario: the same server, every client sends            *)
(* ScenarioStream.                                                         *)
(***************************************************************************)
ScenarioAccept == AcceptFrom({ScenarioStream})

ScenarioNext == ScenarioAccept \/ SessionStep

ScenarioSpec == Init /\ [][ScenarioNext]_vars

(***************************************************************************)
(* create_wav_header on its own: a payload is drawn, line 106 encodes it.  *)
(***************************************************************************)
WavInit ==
    /\ pc = "encode"
    /\ audio_buffer \in Payloads
    /\ cur = 0
    /\ connState = [c \in Conns |-> "pending"]
    /\ stream = <<>>
    /\ pos = 0
    /\ recv_result = "none"
    /\ wav_data = <<>>
    /\ gemini_calls = 0
    /\ gemini_result = "none"
    /\ gemini_response_text = <<>>
    /\ eleven_calls = 0
    /\ synth_result = "none"
    /\ yielded = <<>>
    /\ chunk = <<>>
    /\ sent = <<>>
    /\ total_bytes_sent = 0
    /\ send_failed = FALSE

Encode ==
    /\ pc = "encode"
    /\ wav_data' = create_wav_header(audio_buffer, SAMPLE_RATE, CHANNELS, SAMPLE_WIDTH)
    /\ pc' = "encoded"
    /\ UNCHANGED <<gemini_calls, gemini_result, gemini_response_text, connVars,
                   recvVars, synthVars>>

WavSpec == WavInit /\ [][Encode]_vars

\* the fairness main()'s single thread gives: a step of the session that can be
\* taken is taken (every blocking call returns or raises)
FairSpec == Spec /\ WF_vars(SessionStep)

(***************************************************************************)
(* Properties.  The session's variables keep their last values until the   *)
(* next accept, so a finished session can be inspected at pc = "accept".   *)
(***************************************************************************)
\* the session of connection cur has run to its end
Finished == pc = "accept" /\ cur > 0

\* the receive loop of the current session has ended
LoopEnded == pc \in {"process", "synth", "relay", "send", "close"} \/ Finished

\* the session is past every collaborator call and write
Done == pc = "close" \/ Finished

\* C1: a session whose audio buffer is empty when the receive loop ends calls
\* neither collaborator, writes no byte to the client, and ends with its
\* connection closed.
C1_EmptyAudioShortCircuits ==
    (LoopEnded /\ audio_buffer = <<>>) =>
        /\ gemini_calls = 0
        /\ eleven_calls = 0
        /\ sent = <<>>
        /\ pc \in {"process", "close", "accept"}
        /\ (Finished => connState[cur] = "closed")

C1_Witness ==
    /\ Finished
    /\ recv_result = "marker"
    /\ pos > 0
    /\ audio_buffer = <<>>
    /\ connState[cur] = "closed"

\* C2: when the synthesis stream fails after yielding N chunks, the bytes
\* written to the client are exactly those N chunks in order, convert was
\* called once, and the session ends with the connection closed.
C2_SynthFailureKeepsPrefix ==
    synth_result = "error" =>
        /\ sent = Flatten(yielded)
        /\ eleven_calls = 1
        /\ chunk = <<>>
        /\ Done
        /\ (Finished => connState[cur] = "closed")

C2_Witness ==
    /\ Finished
    /\ synth_result = "error"
    /\ yielded = <<<<65, 65>>, <<66, 66>>>>
    /\ sent = <<65, 65, 66, 66>>
    /\ connState[cur] = "closed"

\* C3: when the transcription call fails, convert is never called, no byte is
\* written to the client, and the session is done, its connection closed at
\* the end.
C3_TranscriptionFailureSkipsSynthesis ==
    gemini_result = "error" =>
        /\ eleven_calls = 0
        /\ synth_result = "none"
        /\ sent = <<>>
        /\ Done
        /\ (Finished => connState[cur] = "closed")

C3_Witness ==
    /\ Finished
    /\ gemini_result = "error"
    /\ gemini_calls = 1
    /\ audio_buffer # <<>>
    /\ connState[cur] = "closed"

\* C4: with a non-empty response text and no write failure, what the stream
\* has yielded is what was written plus the one chunk in flight, in order; a
\* chunk is in flight only between its pull and its write; and when the
\* stream completes the client has received exactly the concatenation of the
\* chunks, after which the connection is closed.
C4_RelayInOrderOneInFlight ==
    (synth_result \in {"streaming", "finished"} /\ ~send_failed) =>
        /\ Strip(gemini_response_text) # <<>>
        /\ Flatten(yielded) = sent \o chunk
        /\ (chunk # <<>> <=> pc = "send")
        /\ (synth_result = "finished" =>
                /\ sent = Flatten(yielded)
                /\ Done
                /\ (Finished => connState[cur] = "closed"))

C4_Witness ==
    /\ Finished
    /\ synth_result = "finished"
    /\ yielded = <<<<65, 65>>, <<66, 66>>>>
    /\ sent = <<65, 65, 66, 66>>
    /\ connState[cur] = "closed"

\* where the first marker of the client's stream starts (0: it has none)
FirstMarker(s) ==
    LET starts == {i \in 1..(Len(s) - Len(END_RECORDING_SIGNAL) + 1) :
                      \A k \in 1..Len(END_RECORDING_SIGNAL) :
                          s[i + k - 1] = END_RECORDING_SIGNAL[k]}
    IN  IF starts = {} THEN 0
        ELSE CHOOSE i \in starts : \A j \in starts : i <= j

\* C5: when a read returns a chunk that holds the stream's first marker
\* whole, the receive loop ends and the buffer handed on is byte for byte
\* the audio that preceded that marker, however the earlier bytes were cut
\* into chunks.
C5_BufferIsAudioBeforeMarker ==
    [][ (/\ pc = "recv"
         /\ pos' > pos
         /\ FirstMarker(stream) > pos
         /\ FirstMarker(stream) + Len(END_RECORDING_SIGNAL) - 1 <= pos')
        => (/\ recv_result' = "marker"
            /\ pc' = "process"
            /\ audio_buffer' = SubSeq(stream, 1, FirstMarker(stream) - 1)) ]_vars

C5_Witness ==
    /\ pc = "process"
    /\ recv_result = "marker"
    /\ stream = <<1, 2>> \o END_RECORDING_SIGNAL
    /\ pos = Len(stream)
    /\ audio_buffer = <<1, 2>>

\* C6: a read whose chunk contains the marker appends only the bytes before
\* the marker's first occurrence in the chunk and ends the receive loop; once
\* the loop has ended nothing more is read from or appended for that
\* connection.
C6_MarkerChunkIsCutAndLoopEnds ==
    [][ /\ \A n \in 1..(Len(stream) - pos) :
             LET data == SubSeq(stream, pos + 1, pos + n)
                 m == FirstMarker(data)
             IN  (pc = "recv" /\ pos' = pos + n /\ m > 0)
                 => (/\ audio_buffer' = audio_buffer \o SubSeq(data, 1, m - 1)
                     /\ recv_result' = "marker"
                     /\ pc' = "process")
        /\ (LoopEnded /\ cur' = cur)
             => (pos' = pos /\ audio_buffer' = audio_buffer /\ pc' # "recv") ]_vars

C6_Witness ==
    /\ recv_result = "marker"
    /\ stream = END_RECORDING_SIGNAL \o <<1, 2>>
    /\ pos = Len(stream)
    /\ audio_buffer = <<>>
    /\ Finished

\* C7: the connection of every finished session is closed, whichever way the
\* session ended, and a connection is open only while its session runs.
C7_FinishedSessionIsClosed ==
    \A c \in Conns :
        (c < cur \/ (c = cur /\ pc = "accept")) => connState[c] = "closed"

C7_Witness ==
    /\ Finished
    /\ send_failed
    /\ recv_result = "eof"
    /\ connState[cur] = "closed"

\* C8: after a socket error on a read the accumulated audio is not processed:
\* no container, no transcription call, no synthesis call, no byte written.
C8_ReadErrorSkipsProcessing ==
    recv_result = "error" =>
        /\ wav_data = <<>>
        /\ gemini_calls = 0
        /\ eleven_calls = 0
        /\ sent = <<>>

\* a session in which something went wrong
SessionFailure ==
    \/ recv_result = "error"
    \/ send_failed
    \/ gemini_result = "error"
    \/ synth_result = "error"
    \/ (LoopEnded /\ audio_buffer = <<>>)

\* C9: whatever fails in a session, the server gets back to waiting in
\* accept (under FairSpec: every call returns or raises).
C9_FailureReturnsToAccept == SessionFailure ~> (pc = "accept")

C9_Witness ==
    /\ Finished
    /\ recv_result = "error"
    /\ gemini_result = "error"
    /\ cur = MaxConns

\* C10: at most one connection is open, it is the one accepted last and its
\* session is running; every earlier connection is closed and every later
\* one has not been accepted.
C10_OneSessionAtATime ==
    /\ Cardinality({c \in Conns : connState[c] = "open"}) <= 1
    /\ \A c \in Conns :
         /\ connState[c] = "open" => (c = cur /\ pc # "accept")
         /\ c < cur => connState[c] = "closed"
         /\ c > cur => connState[c] = "pending"
    /\ (pc # "accept" => connState[cur] = "open")

C10_Witness ==
    /\ cur = 2
    /\ connState[1] = "closed"
    /\ connState[2] = "open"
    /\ pc = "send"

RECURSIVE FromBytesLE(_)
\* int.from_bytes(b, 'little')
FromBytesLE(b) == IF b = <<>> THEN 0 ELSE Head(b) + 256 * FromBytesLE(Tail(b))

\* out is a 44-byte header for payload with the given parameters, then payload
HeaderOK(out, payload, rate, channels, width) ==
    /\ Len(out) = 44 + Len(payload)
    /\ \A i \in 1..Len(out) : out[i] \in 0..255
    /\ SubSeq(out, 1, 4) = <<82, 73, 70, 70>>
    /\ FromBytesLE(SubSeq(out, 5, 8)) = Len(payload) + 36
    /\ SubSeq(out, 9, 16) = <<87, 65, 86, 69, 102, 109, 116, 32>>
    /\ FromBytesLE(SubSeq(out, 17, 20)) = 16
    /\ FromBytesLE(SubSeq(out, 21, 22)) = 1
    /\ FromBytesLE(SubSeq(out, 23, 24)) = channels
    /\ FromBytesLE(SubSeq(out, 25, 28)) = rate
    /\ FromBytesLE(SubSeq(out, 29, 32)) = rate * channels * width
    /\ FromBytesLE(SubSeq(out, 33, 34)) = channels * width
    /\ FromBytesLE(SubSeq(out, 35, 36)) = width * 8
    /\ SubSeq(out, 37, 40) = <<100, 97, 116, 97>>
    /\ FromBytesLE(SubSeq(out, 41, 44)) = Len(payload)
    /\ SubSeq(out, 45, Len(out)) = payload

\* C11: a zero-length read ends the receive loop with everything read so far
\* in the buffer, and a non-empty buffer is then processed as after a marker:
\* the transcription collaborator is called once with a container holding
\* exactly those bytes.
C11_DisconnectIsImplicitTermination ==
    recv_result = "eof" =>
        /\ LoopEnded
        /\ pos = Len(stream)
        /\ audio_buffer = stream
        /\ (audio_buffer # <<>> /\ pc # "process") =>
               /\ gemini_calls = 1
               /\ gemini_result \in {"ok", "error"}
               /\ Len(wav_data) = 44 + Len(audio_buffer)
               /\ SubSeq(wav_data, 45, Len(wav_data)) = audio_buffer

C11_Witness ==
    /\ Finished
    /\ recv_result = "eof"
    /\ audio_buffer = <<1, 2, 1, 2>>
    /\ gemini_result = "ok"
    /\ sent = <<66, 66>>

\* C12 as stated: in the scenario of 200 audio bytes and the marker, the
\* container submitted is 636 bytes long.
C12_ContainerIs636Bytes ==
    (recv_result = "marker" /\ gemini_calls = 1) => Len(wav_data) = 636

\* C12: in the scenario of 200 audio bytes and the marker, the container
\* submitted is 244 bytes long: a 44-byte header, then the 200-byte payload.
C12_ContainerIs244Bytes ==
    (recv_result = "marker" /\ gemini_calls = 1) =>
        /\ Len(audio_buffer) = 200
        /\ Len(wav_data) = 244
        /\ HeaderOK(wav_data, Repeat(<<1, 2>>, 100), SAMPLE_RATE, CHANNELS, SAMPLE_WIDTH)

C12_Witness ==
    /\ stream = ScenarioStream
    /\ recv_result = "marker"
    /\ gemini_calls = 1
    /\ Len(wav_data) = 244
    /\ SubSeq(wav_data, 45, 244) = Repeat(<<1, 2>>, 100)

\* C13: for every payload, and every sample rate, channel count and sample
\* width, create_wav_header gives 44 header bytes with the size, format and
\* data-size fields the parameters determine, followed by the payload
\* unchanged; the container built at line 106 is that for the constants.
C13_HeaderIsExact ==
    /\ \A rate \in {8000, 16000, 44100}, channels \in {1, 2}, width \in {1, 2, 3} :
           HeaderOK(create_wav_header(audio_buffer, rate, channels, width),
                    audio_buffer, rate, channels, width)
    /\ pc = "encoded" =>
           HeaderOK(wav_data, audio_buffer, SAMPLE_RATE, CHANNELS, SAMPLE_WIDTH)

C13_Witness ==
    /\ pc = "encoded"
    /\ audio_buffer = <<0, 255, 7>>
    /\ Len(wav_data) = 47
    /\ SubSeq(wav_data, 41, 47) = <<3, 0, 0, 0, 0, 255, 7>>

\* C14: a read whose chunk does not hold a whole marker appends the chunk as
\* audio and stays in the receive loop, also when the chunk ends or starts
\* inside a marker; the loop is left only on a chunk that holds a whole
\* marker, on a zero-length read or on a socket error.
C14_SplitMarkerIsNotDetected ==
    [][ /\ \A n \in 1..(Len(stream) - pos) :
             LET data == SubSeq(stream, pos + 1, pos + n)
             IN  (pc = "recv" /\ pos' = pos + n /\ FirstMarker(data) = 0)
                 => (/\ audio_buffer' = audio_buffer \o data
                     /\ recv_result' = "none"
                     /\ pc' = "recv")
        /\ (pc = "recv" /\ pc' # "recv")
             => \/ (recv_result' = "marker"
                    /\ FirstMarker(SubSeq(stream, pos + 1, pos')) > 0)
                \/ (recv_result' = "eof" /\ pos = Len(stream) /\ pos' = pos)
                \/ (recv_result' = "error" /\ pos' = pos) ]_vars

C14_Witness ==
    /\ pc = "recv"
    /\ recv_result = "none"
    /\ stream = <<1, 2>> \o END_RECORDING_SIGNAL
    /\ audio_buffer = stream

\* the text is empty or all whitespace
IsBlank(text) == \A i \in 1..Len(text) : IsSpace(text[i])

\* C15: after a response text that is empty or all whitespace, convert is
\* not called, nothing is written and the session is done; convert is called
\* only for a text with a character that is not whitespace.
C15_BlankTextSkipsSynthesis ==
    /\ (gemini_result = "ok" /\ IsBlank(gemini_response_text) /\ pc # "synth") =>
           /\ eleven_calls = 0
           /\ synth_result = "none"
           /\ sent = <<>>
           /\ Done
    /\ eleven_calls > 0 => (gemini_result = "ok" /\ ~IsBlank(gemini_response_text))

C15_Witness ==
    /\ Finished
    /\ gemini_result = "ok"
    /\ gemini_response_text = <<32, 10>>
    /\ eleven_calls = 0
    /\ connState[cur] = "closed"

\* C16: in a session the container is built and generate_content called at
\* most once, only after the receive loop has ended with a non-empty buffer;
\* convert is called at most once, only after generate_content has returned.
C16_CallsInOrderNoRetry ==
    /\ gemini_calls \in {0, 1}
    /\ eleven_calls \in {0, 1}
    /\ (gemini_calls = 0) = (wav_data = <<>>)
    /\ (gemini_calls = 0) = (gemini_result = "none")
    /\ gemini_calls = 1 =>
           /\ LoopEnded
           /\ pc # "process"
           /\ audio_buffer # <<>>
    /\ (eleven_calls = 0) = (synth_result = "none")
    /\ eleven_calls = 1 =>
           /\ gemini_calls = 1
           /\ gemini_result = "ok"
           /\ pc # "synth"

C16_Witness ==
    /\ pc = "relay"
    /\ gemini_calls = 1
    /\ eleven_calls = 1
    /\ recv_result = "marker"
    /\ yielded = <<<<66, 66>>>>

\* C17: whatever the sessions before it did, the buffer of the current
\* session holds only bytes read on its own connection (it is a prefix of
\* what that client sent, no longer than what was read), a session starts
\* with nothing left over, and the container holds exactly that buffer.
C17_NoStateAcrossSessions ==
    /\ Len(audio_buffer) <= pos
    /\ pos <= Len(stream)
    /\ audio_buffer = SubSeq(stream, 1, Len(audio_buffer))
    /\ wav_data # <<>> => SubSeq(wav_data, 45, Len(wav_data)) = audio_buffer
    /\ (pc = "recv" /\ pos = 0) =>
           /\ audio_buffer = <<>>
           /\ wav_data = <<>>
           /\ gemini_calls = 0
           /\ eleven_calls = 0
           /\ yielded = <<>>
           /\ sent = <<>>

C17_Witness ==
    /\ cur = 2
    /\ stream = END_RECORDING_SIGNAL \o END_RECORDING_SIGNAL
    /\ audio_buffer = END_RECORDING_SIGNAL
    /\ recv_result = "marker"
    /\ gemini_calls = 1
    /\ Len(wav_data) = 64

\* C18: nothing is written to the client while the session is in the
\* receive loop, a write happens only in the relay after the loop has ended,
\* and once the loop has ended nothing more is read on that connection.
C18_HalfDuplex ==
    [][ /\ pc' = "recv" => (sent' = <<>> /\ chunk' = <<>> /\ eleven_calls' = 0)
        /\ (sent' # sent /\ cur' = cur) => (pc = "send" /\ recv_result # "none")
        /\ (LoopEnded /\ cur' = cur) => (pos' = pos /\ pc' # "recv") ]_vars

C18_Witness ==
    /\ Finished
    /\ recv_result = "error"
    /\ stream = <<1, 2>> \o END_RECORDING_SIGNAL
    /\ pos = 2
    /\ synth_result = "finished"
    /\ sent = <<65, 65>>

\* all of a sequence but its last element
Front(q) == SubSeq(q, 1, Len(q) - 1)

\* C19: after a failed write the relay is over: the session is done, no
\* chunk is in flight, convert was called once and the stream is not pulled
\* again, and the client has the chunks written before plus at most a part
\* of the chunk whose write failed.
C19_WriteFailureStopsRelay ==
    send_failed =>
        /\ Done
        /\ chunk = <<>>
        /\ eleven_calls = 1
        /\ synth_result = "streaming"
        /\ yielded # <<>>
        /\ \E n \in 0..(Len(yielded[Len(yielded)]) - 1) :
               sent = Flatten(Front(yielded)) \o SubSeq(yielded[Len(yielded)], 1, n)
        /\ (Finished => connState[cur] = "closed")

C19_Witness ==
    /\ Finished
    /\ send_failed
    /\ yielded = <<<<65, 65>>, <<66, 66>>>>
    /\ sent = <<65, 65, 66>>
    /\ connState[cur] = "closed"

\* C20: an empty chunk from the stream causes no write and leaves the loop
\* where it was, and total_bytes_sent is the summed length of the chunks
\* written so far: all that was written, or, after a failed write, the
\* chunks before the failed one.
C20_EmptyChunksSkippedTotalExact ==
    [][ /\ (pc = "relay" /\ Len(yielded') = Len(yielded) + 1
                         /\ yielded'[Len(yielded')] = <<>>)
             => (/\ pc' = "relay"
                 /\ sent' = sent
                 /\ chunk' = <<>>
                 /\ total_bytes_sent' = total_bytes_sent)
        /\ ~send_failed' => total_bytes_sent' = Len(sent')
        /\ send_failed' => total_bytes_sent' = Len(Flatten(Front(yielded'))) ]_vars

C20_Witness ==
    /\ pc = "relay"
    /\ yielded = <<<<>>, <<65, 65>>>>
    /\ sent = <<65, 65>>
    /\ total_bytes_sent = 2

====
